---- MODULE Spec2Model ----
(***************************************************************************)
(* Model of the site-audit crawl orchestrator (internal/audit/audit.go):   *)
(* Audit.New, Audit.Start, Audit.respectRobots, Audit.startWorker and      *)
(* Audit.processLinks, with the URL policy functions normaliseHost and     *)
(* normaliseURL.                                                           *)
(*                                                                         *)
(* Strings are sequences of tokens: "https://h/a/?q" is                    *)
(*   << "https", ":", "//", "h", "/", "a", "/", "?", "q" >>.               *)
(* Every token stands for at least one character, "/" is the only token   *)
(* that ends in a slash, and "www." is the token of the prefix that        *)
(* normaliseHost trims.  Concatenation is \o, so formatting and parsing    *)
(* are computed on the token sequence as the Go code computes them on the  *)
(* characters.                                                             *)
(***************************************************************************)
EXTENDS Integers, Sequences, FiniteSets, Bags, TLC

VARIABLES
    config,      \* Audit.config: the Config snapshot handed to New
    site,        \* the scripted Fetcher/Extractor: which pages the site serves
    startURL,    \* Audit.startURL
    schemes,     \* Audit.schemes
    robotsData,  \* Audit.robotsData: NilRobots or the parsed rule set
    tasks,       \* Audit.tasks: FIFO queue of task records [u, depth]
    visited,     \* Audit.visited: set of strings
    siteGraph,   \* Audit.siteGraph: [nodes, edges]
    wg,          \* Audit.wg: the WaitGroup counter
    mu,          \* Audit.mu: 0 when free, else the worker holding it
    cancelled,   \* ctx.Done() is closed
    startPc,     \* position of Audit.Start
    startErr,    \* value returned by Audit.Start (NilErr: nil)
    robotsReply, \* what the Fetcher answered for robots.txt (NoReply before)
    pc,          \* position of each worker in startWorker
    cur,         \* the task a worker dequeued (local variable task)
    links,       \* the links the Extractor returned to a worker
    idx,         \* index of the next link in the processLinks loop
    enqueued,    \* history: bag of every task ever enqueued
    fetched,     \* history: bag of [t, r], one per dequeued task and its result
    seen,        \* history: << page URL, resolved link >> of every parsed link
    call,        \* a single call of New or normaliseURL: its inputs and result
    mainPc,      \* position of main (cmd/main.go): [at, via], NoMain without
    exported,    \* history: the calls of the export function, [g, err]
    response,    \* the response a worker's last Fetch returned (local response)
    bodies,      \* the response bodies: [on, robots, obtained, open, closed];
                 \* kept only in the runs that observe them (on)
    late         \* history: [on, n], n[w] the tasks worker w dequeued after
                 \* the context was cancelled; kept only in the runs that
                 \* observe them (on)

vars == << config, site, startURL, schemes, robotsData, tasks, visited,
           siteGraph, wg, mu, cancelled, startPc, startErr, robotsReply,
           pc, cur, links, idx, enqueued, fetched, seen, call, mainPc,
           exported, response, bodies, late >>

\* what the crawl itself never writes
env == << call, mainPc, exported >>

\* the observation of the responses and of their bodies
obs == << response, bodies, late >>

----------------------------------------------------------------------------
(* Bounds of the model *)

MaxWorkersBound == 2
MaxDepthBound == 3

----------------------------------------------------------------------------
(* Strings and net/url *)

Empty == << >>

Last(s) == s[Len(s)]

HasSuffixSlash(s) == Len(s) > 0 /\ Last(s) = "/"

\* strings.HasPrefix(s, p)
HasPrefix(s, p) == Len(s) >= Len(p) /\ SubSeq(s, 1, Len(p)) = p

\* strings.TrimPrefix(s, p)
TrimPrefix(s, p) == IF HasPrefix(s, p) THEN SubSeq(s, Len(p) + 1, Len(s)) ELSE s

\* index of the first token of s in toks, Len(s) + 1 when there is none
IndexAny(s, toks) ==
    LET hits == { i \in 1..Len(s) : s[i] \in toks }
    IN  IF hits = {} THEN Len(s) + 1
        ELSE CHOOSE i \in hits : \A j \in hits : i <= j

\* index of the last "/" of s, 0 when there is none (strings.LastIndex + 1)
LastSlash(s) ==
    LET hits == { i \in 1..Len(s) : s[i] = "/" }
    IN  IF hits = {} THEN 0
        ELSE CHOOSE i \in hits : \A j \in hits : j <= i

Before(s, i) == SubSeq(s, 1, i - 1)
After(s, i) == SubSeq(s, i + 1, Len(s))

NoURL == [Scheme |-> "", Opaque |-> Empty, Host |-> Empty, Path |-> Empty,
          RawQuery |-> Empty, Fragment |-> Empty]

\* url.Parse: [err, u].  The fragment is cut first, then the scheme, then
\* the query, then the authority ("//host") or the opaque part; a space in
\* the host is the parse error of the tests ("https://a b.com").
Parse(s) ==
    LET hash     == IndexAny(s, {"#"})
        noFrag   == Before(s, hash)
        frag     == After(s, hash)
        hasSch   == Len(noFrag) >= 2 /\ noFrag[2] = ":"
        scheme   == IF hasSch THEN noFrag[1] ELSE ""
        rest     == IF hasSch THEN After(noFrag, 2) ELSE noFrag
        qm       == IndexAny(rest, {"?"})
        query    == After(rest, qm)
        hier     == Before(rest, qm)
        opaque   == hasSch /\ Len(hier) > 0 /\ hier[1] \notin {"/", "//"}
        hasAuth  == Len(hier) > 0 /\ hier[1] = "//"
        afterSl  == After(hier, 1)
        hostEnd  == IndexAny(afterSl, {"/"})
        host     == IF hasAuth THEN Before(afterSl, hostEnd) ELSE Empty
        path     == IF opaque THEN Empty
                    ELSE IF hasAuth THEN SubSeq(afterSl, hostEnd, Len(afterSl))
                    ELSE hier
        bad      == \E i \in 1..Len(host) : host[i] = " "
    IN  IF bad THEN [err |-> "invalid character in host name", u |-> NoURL]
        ELSE [err |-> "nil",
              u |-> [Scheme |-> scheme,
                     Opaque |-> IF opaque THEN hier ELSE Empty,
                     Host |-> host, Path |-> path,
                     RawQuery |-> query, Fragment |-> frag]]

\* (*URL).String
String(u) ==
    LET sch  == IF u.Scheme # "" THEN << u.Scheme, ":" >> ELSE Empty
        auth == IF u.Scheme # "" \/ u.Host # Empty
                THEN (IF u.Host # Empty \/ u.Path # Empty THEN << "//" >> ELSE Empty)
                     \o u.Host
                ELSE Empty
        sep  == IF u.Path # Empty /\ u.Path[1] # "/" /\ u.Host # Empty
                THEN << "/" >> ELSE Empty
        body == IF u.Opaque # Empty THEN u.Opaque ELSE auth \o sep \o u.Path
        q    == IF u.RawQuery # Empty THEN << "?" >> \o u.RawQuery ELSE Empty
        f    == IF u.Fragment # Empty THEN << "#" >> \o u.Fragment ELSE Empty
    IN  sch \o body \o q \o f

\* resolvePath of net/url, for paths without "." and ".." segments
resolvePath(base, ref) ==
    LET full == IF ref = Empty THEN base
                ELSE IF ref[1] # "/" THEN Before(base, LastSlash(base) + 1) \o ref
                ELSE ref
    IN  IF full = Empty THEN Empty
        ELSE IF full[1] = "/" THEN full ELSE << "/" >> \o full

\* (*URL).ResolveReference
ResolveReference(base, ref) ==
    LET withScheme == [ref EXCEPT !.Scheme = IF ref.Scheme = "" THEN base.Scheme
                                             ELSE ref.Scheme]
    IN  IF ref.Scheme # "" \/ ref.Host # Empty
        THEN [withScheme EXCEPT !.Path = resolvePath(ref.Path, Empty)]
        ELSE IF ref.Opaque # Empty
        THEN [withScheme EXCEPT !.Host = Empty, !.Path = Empty]
        ELSE LET inheritQ == ref.Path = Empty /\ ref.RawQuery = Empty
             IN  [withScheme EXCEPT
                    !.Host = base.Host,
                    !.Path = resolvePath(base.Path, ref.Path),
                    !.RawQuery = IF inheritQ THEN base.RawQuery ELSE ref.RawQuery,
                    !.Fragment = IF inheritQ /\ ref.Fragment = Empty
                                 THEN base.Fragment ELSE ref.Fragment]

\* normaliseHost
normaliseHost(host) == TrimPrefix(host, << "www." >>)

\* faulty variant of normaliseURL: the key is built from the normalised host
normaliseURLTrimsHost(u) ==
    LET stripped == IF Len(u.Path) > 1 /\ HasSuffixSlash(u.Path)
                    THEN SubSeq(u.Path, 1, Len(u.Path) - 1)
                    ELSE u.Path
        path     == IF stripped = Empty THEN << "/" >> ELSE stripped
    IN  << u.Scheme, ":", "//" >> \o normaliseHost(u.Host) \o path

\* normaliseURL
normaliseURL(u) ==
    LET stripped == IF Len(u.Path) > 1 /\ HasSuffixSlash(u.Path)
                    THEN SubSeq(u.Path, 1, Len(u.Path) - 1)
                    ELSE u.Path
        path     == IF stripped = Empty THEN << "/" >> ELSE stripped
    IN  << u.Scheme, ":", "//" >> \o u.Host \o path

----------------------------------------------------------------------------
(* Configuration and construction *)

H == << "h" >>
W == << "www.", "h" >>
X == << "x" >>

Url(scheme, host, path) == << scheme, ":", "//" >> \o host \o path

\* strings.Split(s, ","): the set of the pieces (the code adds them to a set)
SplitComma(s) == { s[i] : i \in { j \in 1..Len(s) : s[j] # "," } }

\* The environments a crawl runs in: the site the scripted collaborators
\* serve, with the start URL and the scheme list configured for it.
Scenarios ==
    { [site |-> "chain", StartURL |-> Url("https", H, Empty),
       ValidSchemes |-> << "https", ",", "http" >>],
      [site |-> "race",  StartURL |-> Url("https", H, << "/" >>),
       ValidSchemes |-> Empty],
      [site |-> "loop", StartURL |-> Url("https", H, Empty),
       ValidSchemes |-> Empty],
      [site |-> "filters", StartURL |-> Url("https", H, Empty),
       ValidSchemes |-> << "https", ",", "http" >>],
      [site |-> "plain", StartURL |-> Url("http", H, Empty),
       ValidSchemes |-> Empty] }

\* Config (the fields New and the crawl read)
Configs ==
    { [StartURL |-> sc.StartURL, Agent |-> "agent", ValidSchemes |-> sc.ValidSchemes,
       RespectRobots |-> rr, MaxWorkers |-> mw, MaxDepth |-> md, site |-> sc.site] :
      sc \in Scenarios, rr \in BOOLEAN,
      mw \in 0..MaxWorkersBound, md \in 0..MaxDepthBound }

\* faulty variant of New: a pool of zero workers is rejected as well
NewErrZeroWorkers(c, fetcher, extractor) ==
    IF ~fetcher THEN "no fetcher provided"
    ELSE IF ~extractor THEN "no extractor provided"
    ELSE IF c.StartURL = Empty \/ Parse(c.StartURL).err # "nil" THEN "invalid start url"
    ELSE IF Parse(c.StartURL).u.Scheme = "" THEN "invalid start url scheme"
    ELSE IF c.MaxWorkers <= 0 THEN "invaild max workers"
    ELSE IF c.MaxDepth < 0 THEN "invalid max depth"
    ELSE "nil"

\* New: the error it returns ("nil" when the Audit is built)
NewErr(c, fetcher, extractor) ==
    LET parsed == Parse(c.StartURL)
    IN  IF ~fetcher THEN "no fetcher provided"
        ELSE IF ~extractor THEN "no extractor provided"
        ELSE IF c.StartURL = Empty \/ parsed.err # "nil" THEN "invalid start url"
        ELSE IF parsed.u.Scheme = "" THEN "invalid start url scheme"
        ELSE IF c.MaxWorkers < 0 THEN "invaild max workers"
        ELSE IF c.MaxDepth < 0 THEN "invalid max depth"
        ELSE "nil"

\* New: the scheme allow-list
NewSchemes(c) ==
    {"https"} \cup (IF c.ValidSchemes # Empty THEN SplitComma(c.ValidSchemes) ELSE {})

EmptyGraph == [nodes |-> {}, edges |-> EmptyBag]

\* faulty variant of graph.AddEdge: the new edge replaces the graph
AddEdgeReplaces(g, from, to, weight) ==
    [nodes |-> {from, to}, edges |-> SetToBag({ << from, to, weight >> })]

\* graph.AddEdge(from, to, weight): the end points become nodes
AddEdge(g, from, to, weight) ==
    [nodes |-> g.nodes \cup {from, to},
     edges |-> g.edges (+) SetToBag({ << from, to, weight >> })]

Workers == 1..config.MaxWorkers

NoTask == [u |-> NoURL, depth |-> 0]

\* a nil *robotstxt.RobotsData
NilRobots == [set |-> FALSE, disallow |-> {}]

\* a nil error, as an error chain without messages
NilErr == << >>

NoReply == [kind |-> "none", status |-> 0, body |-> "none"]

\* no response yet: the local variable response before the first Fetch
NoResponse == [kind |-> "none", status |-> 0]

\* no response body obtained, and the bodies are not observed
NoBodies ==
    [on |-> FALSE, robots |-> "none", obtained |-> 0,
     open |-> [w \in Workers |-> 0], closed |-> 0]

\* no task dequeued after a cancellation, and such dequeues are not observed
NoLate == [on |-> FALSE, n |-> [w \in Workers |-> 0]]

\* no call of a function under study
NoCall == [op |-> "none", done |-> TRUE]

AuditInit ==
    /\ config \in { c \in Configs : NewErr(c, TRUE, TRUE) = "nil" }
    /\ site = config.site
    /\ startURL = Parse(config.StartURL).u
    /\ schemes = NewSchemes(config)
    /\ robotsData = NilRobots
    /\ tasks = << >>
    /\ visited = {}
    /\ siteGraph = EmptyGraph
    /\ wg = 0
    /\ mu = 0
    /\ cancelled = FALSE
    /\ startPc = "start"
    /\ startErr = NilErr
    /\ robotsReply = NoReply
    /\ pc = [w \in Workers |-> "idle"]
    /\ cur = [w \in Workers |-> NoTask]
    /\ links = [w \in Workers |-> << >>]
    /\ idx = [w \in Workers |-> 0]
    /\ enqueued = EmptyBag
    /\ fetched = EmptyBag
    /\ seen = {}
    /\ call = NoCall
    /\ response = [w \in Workers |-> NoResponse]

\* no main: Start is called by a caller that may cancel the context
NoMain == [at |-> "none", via |-> "none"]

Init ==
    /\ AuditInit
    /\ mainPc = NoMain
    /\ exported = << >>
    /\ bodies = NoBodies
    /\ late = NoLate

----------------------------------------------------------------------------
(* The scripted collaborators *)

Sites == { "chain", "race", "loop", "filters", "plain" }

\* The links on the page of site s whose canonical key is key.
PageLinks(s, key) ==
    CASE s = "chain" /\ key = Url("https", H, << "/" >>) ->
            << << "/", "a" >> >>
      [] s = "chain" /\ key = Url("https", H, << "/", "a" >>) ->
            << << "/", "b" >> >>
      [] s = "race" /\ key = Url("https", H, << "/" >>) ->
            << << "/", "a" >>, << "/", "b" >> >>
      [] s = "race" /\ key = Url("https", H, << "/", "a" >>) ->
            << << "/", "x" >> >>
      [] s = "race" /\ key = Url("https", H, << "/", "b" >>) ->
            << << "/", "y" >> >>
      [] s = "race" /\ key = Url("https", H, << "/", "y" >>) ->
            << << "/", "x" >> >>
      [] s = "loop" /\ key = Url("https", H, << "/" >>) ->
            << << "/" >>, << "/", "a", "?", "q", "#", "s" >>, << "a", "/" >> >>
      [] s = "loop" /\ key = Url("https", H, << "/", "a" >>) ->
            << << "/" >>, << "/", "b" >> >>
      [] s = "filters" /\ key = Url("https", H, << "/" >>) ->
            << Url("https", X, << "/", "a" >>),
               << "mailto", ":", "m" >>,
               << "https", ":", "//", "a", " ", "b" >>,
               << "/", "f" >>,
               Url("https", W, << "/", "a", "/" >>),
               << "/", "a" >> >>
      [] s = "filters" /\ key = Url("https", W, << "/", "a" >>) ->
            << << "/", "a" >>, << "/", "f", "/", "x" >> >>
      [] s = "filters" /\ key = Url("https", H, << "/", "a" >>) ->
            << Url("http", H, << "/", "a" >>) >>
      [] s = "plain" /\ key = Url("http", H, << "/" >>) ->
            << Url("https", H, << "/", "a" >>), << "/", "b" >> >>
      [] s = "plain" /\ key = Url("https", H, << "/", "a" >>) ->
            << Url("http", H, Empty), Url("http", H, << "/", "robots.txt" >>) >>
      [] OTHER -> << >>

\* What the Extractor returns for the page fetched at u, by site.
SiteLinks(s, u) == PageLinks(s, normaliseURL(u))

\* The canonical keys of the pages that carry links
LinkedPages ==
    { Url("https", H, << "/" >>), Url("https", H, << "/", "a" >>),
      Url("https", H, << "/", "b" >>), Url("https", H, << "/", "y" >>),
      Url("https", W, << "/", "a" >>), Url("http", H, << "/" >>) }

\* Every raw link string of the sites
LinkStrings ==
    UNION { { PageLinks(s, k)[i] : i \in 1..Len(PageLinks(s, k)) } :
            s \in Sites, k \in LinkedPages }

\* respectRobots, line 119: robotsURL, built by concatenation
RobotsURLOf(u) == << u.Scheme, ":", "//" >> \o u.Host \o << "/", "robots.txt" >>

\* Every robots.txt URL string of the configurations
RobotsStrings == { RobotsURLOf(Parse(c.StartURL).u) : c \in Configs }

\* url.Parse of the strings the crawl parses, computed once
ParsedLinks == [l \in LinkStrings \cup RobotsStrings |-> Parse(l)]

\* What the Fetcher may answer for a page: an error or a status code
FetchReplies ==
    { [kind |-> "error", status |-> 0],
      [kind |-> "response", status |-> 200],
      [kind |-> "response", status |-> 301],
      [kind |-> "response", status |-> 403] }

\* What the Fetcher may answer for robots.txt: a status with the body kind
RobotsReplies ==
    { [kind |-> "error", status |-> 0, body |-> "none"],
      [kind |-> "response", status |-> 404, body |-> "none"],
      [kind |-> "response", status |-> 403, body |-> "none"],
      [kind |-> "response", status |-> 200, body |-> "unreadable"],
      [kind |-> "response", status |-> 200, body |-> "garbage"],
      [kind |-> "response", status |-> 200, body |-> "rules"] }

\* robotstxt.FromBytes of the "rules" body: User-agent: * / Disallow: /f
RobotsRules == [set |-> TRUE, disallow |-> { << "/", "f" >> }]

\* (*RobotsData).TestAgent(path, agent): no Disallow prefix matches the path
TestAgent(rd, path, agent) == ~ \E p \in rd.disallow : HasPrefix(path, p)

----------------------------------------------------------------------------
(* Audit.Start and Audit.respectRobots *)

NewTask(u, depth) == [u |-> u, depth |-> depth]

\* respectRobots: robotsURL
RobotsURL == RobotsURLOf(startURL)

\* faulty variant of respectRobots: every status other than 404 is read as 200
RespectRobotsErrAnyStatus(reply) ==
    IF reply.kind = "error" THEN "error fetching robots.txt"
    ELSE IF reply.body = "unreadable" THEN "error reading response body"
    ELSE IF reply.body = "garbage" THEN "error parsing robots.txt data"
    ELSE "nil"

\* faulty variant of respectRobots: a 404 is fatal like any other non-200 status
RespectRobotsErrStrict(reply) ==
    IF reply.kind = "error" THEN "error fetching robots.txt"
    ELSE IF reply.status # 200 THEN "robots.txt not found or returned non 200/404 status"
    ELSE IF reply.body = "unreadable" THEN "error reading response body"
    ELSE IF reply.body = "garbage" THEN "error parsing robots.txt data"
    ELSE "nil"

\* respectRobots: the error it returns for a reply of the Fetcher ("nil": none)
RespectRobotsErr(reply) ==
    IF ParsedLinks[RobotsURL].err # "nil" THEN "error creating robots url"
    ELSE IF reply.kind = "error" THEN "error fetching robots.txt"
    ELSE IF reply.status = 404 THEN "nil"
    ELSE IF reply.status # 200 THEN "robots.txt not found or returned non 200/404 status"
    ELSE IF reply.body = "unreadable" THEN "error reading response body"
    ELSE IF reply.body = "garbage" THEN "error parsing robots.txt data"
    ELSE "nil"

\* respectRobots, lines 124-128: a robots.txt response was obtained; its body
\* is closed by the deferred Close when respectRobots returns
RobotsBodyClosed(b, reply) ==
    IF b.on /\ reply.kind = "response" THEN [b EXCEPT !.robots = "closed"] ELSE b

\* Start, lines 93-97: the robots preflight; an error makes Start return it
\* wrapped, otherwise the robots URL is marked visited and Start goes on.
StartPreflight ==
    /\ startPc = "start"
    /\ config.RespectRobots
    /\ \E reply \in RobotsReplies :
         LET err == RespectRobotsErr(reply)
         IN  /\ robotsReply' = reply
             /\ bodies' = RobotsBodyClosed(bodies, reply)
             /\ IF err # "nil"
                THEN /\ startErr' = << "failed to respect robots: ", err >>
                     /\ startPc' = "returned"
                     /\ UNCHANGED << robotsData, visited >>
                ELSE /\ robotsData' = IF reply.status = 404 THEN NilRobots ELSE RobotsRules
                     /\ visited' = visited \cup { RobotsURL }
                     /\ startPc' = "seed"
                     /\ UNCHANGED startErr
    /\ UNCHANGED << env, response, late, config, site, startURL, schemes, tasks,
                    siteGraph, wg, mu, cancelled, pc, cur, links, idx, enqueued,
                    fetched, seen >>

\* Start, line 102: the string under which the start URL is marked visited
SeedVisitedKey == String(startURL)

\* Start, lines 98-106: seed the queue, mark the start URL visited and launch
\* MaxWorkers workers (wg.Add(1) and go startWorker for each).
StartSeed ==
    /\ \/ startPc = "seed"
       \/ startPc = "start" /\ ~config.RespectRobots
    /\ tasks' = Append(tasks, NewTask(startURL, 0))
    /\ enqueued' = enqueued (+) SetToBag({ NewTask(startURL, 0) })
    /\ visited' = visited \cup { SeedVisitedKey }
    /\ wg' = wg + config.MaxWorkers
    /\ pc' = [w \in Workers |-> "select"]
    /\ startPc' = "wait"
    /\ UNCHANGED << env, obs, config, site, startURL, schemes, robotsData, siteGraph, mu,
                    cancelled, startErr, robotsReply, cur, links, idx, fetched,
                    seen >>

\* Start, lines 107-109: wg.Wait() returns once every worker has called Done
StartReturn ==
    /\ startPc = "wait"
    /\ wg = 0
    /\ startPc' = "returned"
    /\ startErr' = NilErr
    /\ UNCHANGED << env, obs, config, site, startURL, schemes, robotsData, tasks, visited,
                    siteGraph, wg, mu, cancelled, robotsReply, pc, cur, links,
                    idx, enqueued, fetched, seen >>

\* The caller cancels the context handed to Start
Cancel ==
    /\ ~cancelled
    /\ startPc # "returned"
    /\ cancelled' = TRUE
    /\ UNCHANGED << env, obs, config, site, startURL, schemes, robotsData, tasks, visited,
                    siteGraph, wg, mu, startPc, startErr, robotsReply, pc, cur,
                    links, idx, enqueued, fetched, seen >>

----------------------------------------------------------------------------
(* Audit.startWorker *)

Log(t, r) == SetToBag({ [t |-> t, r |-> r] })

\* history: the Fetcher's answer is a failure (an error, or a status >= 400)
ReplyFailed(reply) == reply.kind = "error" \/ reply.status >= 400

\* faulty variant of the deferred wg.Done(): the counter is decremented twice
WgDoneTwice(n) == n - 2

\* faulty variant of the deferred wg.Done(): the counter is not decremented
WgDoneForgotten(n) == n

\* line 153: defer a.wg.Done()
WgDone(n) == n - 1

\* line 174: defer response.Body.Close() -- one more body of worker w waits
\* for the return of startWorker to be closed
DeferClose(b, w) ==
    IF b.on THEN [b EXCEPT !.obtained = @ + 1, !.open[w] = @ + 1] ELSE b

\* faulty variant of the return of startWorker: the deferred Close calls are
\* not run
RunDeferredForgotten(b, w) == b

\* the return of startWorker (lines 157, 164): the deferred Close calls of
\* line 174 run, before the deferred wg.Done() of line 153
RunDeferred(b, w) ==
    IF b.on THEN [b EXCEPT !.closed = @ + b.open[w], !.open[w] = 0] ELSE b

\* faulty variant of the check of ctx.Done(): the worker never looks at it
WorkerSelectIgnoresCancel(w) ==
    /\ pc[w] = "select"
    /\ pc' = [pc EXCEPT ![w] = "lock"]
    /\ UNCHANGED << env, obs, config, site, startURL, schemes, robotsData, tasks, visited,
                    siteGraph, wg, mu, cancelled, startPc, startErr, robotsReply,
                    cur, links, idx, enqueued, fetched, seen >>

\* lines 155-160: the non-blocking check of ctx.Done()
WorkerSelect(w) ==
    /\ pc[w] = "select"
    /\ IF cancelled
       THEN /\ pc' = [pc EXCEPT ![w] = "done"]
            /\ wg' = WgDone(wg)
            /\ bodies' = RunDeferred(bodies, w)
       ELSE /\ pc' = [pc EXCEPT ![w] = "lock"]
            /\ UNCHANGED << wg, bodies >>
    /\ UNCHANGED << env, response, late, config, site, startURL, schemes, robotsData, tasks, visited,
                    siteGraph, mu, cancelled, startPc, startErr, robotsReply,
                    cur, links, idx, enqueued, fetched, seen >>

\* line 161: a.mu.Lock()
WorkerLock(w) ==
    /\ pc[w] = "lock"
    /\ mu = 0
    /\ mu' = w
    /\ pc' = [pc EXCEPT ![w] = "dequeue"]
    /\ UNCHANGED << env, obs, config, site, startURL, schemes, robotsData, tasks, visited,
                    siteGraph, wg, cancelled, startPc, startErr, robotsReply,
                    cur, links, idx, enqueued, fetched, seen >>

\* faulty variant of IsEmpty: a queue holding one task counts as empty
IsEmptyOffByOne(q) == Len(q) <= 1

\* line 162: a.tasks.IsEmpty()
IsEmpty(q) == q = << >>

\* history: worker w dequeues a task; counted when the context is cancelled
Dequeued(l, w) ==
    IF l.on /\ cancelled THEN [l EXCEPT !.n[w] = @ + 1] ELSE l

\* faulty variant of the dequeue: the lock is kept while the task is fetched
WorkerDequeueKeepsLock(w) ==
    /\ pc[w] = "dequeue"
    /\ IF IsEmpty(tasks)
       THEN /\ pc' = [pc EXCEPT ![w] = "done"]
            /\ wg' = WgDone(wg)
            /\ mu' = 0
            /\ bodies' = RunDeferred(bodies, w)
            /\ UNCHANGED << tasks, cur, late >>
       ELSE /\ cur' = [cur EXCEPT ![w] = Head(tasks)]
            /\ tasks' = Tail(tasks)
            /\ pc' = [pc EXCEPT ![w] = "fetch"]
            /\ late' = Dequeued(late, w)
            /\ UNCHANGED << wg, mu, bodies >>
    /\ UNCHANGED << env, response, config, site, startURL, schemes, robotsData, visited,
                    siteGraph, cancelled, startPc, startErr, robotsReply,
                    links, idx, enqueued, fetched, seen >>

\* lines 162-167: under the lock, return on an empty queue, else dequeue
WorkerDequeue(w) ==
    /\ pc[w] = "dequeue"
    /\ mu' = 0
    /\ IF IsEmpty(tasks)
       THEN /\ pc' = [pc EXCEPT ![w] = "done"]
            /\ wg' = WgDone(wg)
            /\ bodies' = RunDeferred(bodies, w)
            /\ UNCHANGED << tasks, cur, late >>
       ELSE /\ cur' = [cur EXCEPT ![w] = Head(tasks)]
            /\ tasks' = Tail(tasks)
            /\ pc' = [pc EXCEPT ![w] = "fetch"]
            /\ late' = Dequeued(late, w)
            /\ UNCHANGED << wg, bodies >>
    /\ UNCHANGED << env, response, config, site, startURL, schemes, robotsData, visited,
                    siteGraph, cancelled, startPc, startErr, robotsReply,
                    links, idx, enqueued, fetched, seen >>

\* faulty variant of the status check: only server errors are rejected
StatusRejectedServerOnly(status) == status >= 500

\* lines 175-178: the status check after a Fetch that returned a response
StatusRejected(status) == status >= 400

\* lines 169-178: Fetch outside the lock; an error or a rejected status
\* makes the worker continue with its next loop iteration
WorkerFetch(w) ==
    /\ pc[w] = "fetch"
    /\ \E reply \in FetchReplies :
         /\ IF reply.kind = "error"
            THEN pc' = [pc EXCEPT ![w] = "select"]
            ELSE IF StatusRejected(reply.status)
            THEN pc' = [pc EXCEPT ![w] = "select"]
            ELSE pc' = [pc EXCEPT ![w] = "extract"]
         /\ fetched' = IF ReplyFailed(reply)
                       THEN fetched (+) Log(cur[w], "failed") ELSE fetched
         /\ response' = IF bodies.on THEN [response EXCEPT ![w] = reply]
                        ELSE response
         /\ bodies' = IF reply.kind = "response" THEN DeferClose(bodies, w)
                      ELSE bodies
    /\ UNCHANGED << env, late, config, site, startURL, schemes, robotsData, tasks, visited,
                    siteGraph, wg, mu, cancelled, startPc, startErr, robotsReply,
                    cur, links, idx, enqueued, seen >>

\* lines 179-185: Extract outside the lock; an error makes the worker
\* continue, otherwise it calls processLinks with the links
WorkerExtract(w) ==
    /\ pc[w] = "extract"
    /\ \E ok \in BOOLEAN :
         IF ok
         THEN /\ links' = [links EXCEPT ![w] = SiteLinks(site, cur[w].u)]
              /\ pc' = [pc EXCEPT ![w] = "plock"]
              /\ fetched' = fetched (+) Log(cur[w], "ok")
         ELSE /\ pc' = [pc EXCEPT ![w] = "select"]
              /\ fetched' = fetched (+) Log(cur[w], "failed")
              /\ UNCHANGED links
    /\ UNCHANGED << env, obs, config, site, startURL, schemes, robotsData, tasks, visited,
                    siteGraph, wg, mu, cancelled, startPc, startErr, robotsReply,
                    cur, idx, enqueued, seen >>

----------------------------------------------------------------------------
(* Audit.processLinks *)

\* line 202: the scheme filter
SchemeAllowed(u) == u.Scheme \in schemes

\* faulty variant of the external-link filter: every host passes
SameHostAlways(base, u) == TRUE

\* lines 193, 201, 206: the external-link filter
SameHost(base, u) == normaliseHost(base.Host) = normaliseHost(u.Host)

\* faulty variant of the robots filter: every path passes
RobotsAllowedAlways(u) == TRUE

\* line 210: the robots filter
RobotsAllowed(u) ==
    robotsData = NilRobots \/ TestAgent(robotsData, u.Path, config.Agent)

\* faulty variant of the lookup: no key is ever found in the visited set
AlreadyVisitedNever(key) == FALSE

\* line 215: the lookup of the canonical key in the visited set
AlreadyVisited(key) == key \in visited

\* faulty variant of the depth check: links at depth MaxDepth are enqueued
ShouldEnqueueOffByOne(depth) == depth + 1 <= config.MaxDepth

\* line 220: whether a link found on a page of this depth is enqueued
ShouldEnqueue(depth) == depth + 1 < config.MaxDepth

\* lines 195-217: what processLinks decides for one link of task t
Verdict(t, linkString) ==
    LET parsed   == ParsedLinks[linkString]
        resolved == ResolveReference(t.u, parsed.u)
    IN  IF parsed.err # "nil" THEN "malformed"
        ELSE IF ~SchemeAllowed(resolved) THEN "scheme"
        ELSE IF ~SameHost(t.u, resolved) THEN "external"
        ELSE IF ~RobotsAllowed(resolved) THEN "robots"
        ELSE IF AlreadyVisited(normaliseURL(resolved)) THEN "visited"
        ELSE "accept"

Resolved(t, linkString) == ResolveReference(t.u, ParsedLinks[linkString].u)

\* line 190: a.mu.Lock() on entry to processLinks
WorkerProcessLock(w) ==
    /\ pc[w] = "plock"
    /\ mu = 0
    /\ mu' = w
    /\ idx' = [idx EXCEPT ![w] = 1]
    /\ pc' = [pc EXCEPT ![w] = "links"]
    /\ UNCHANGED << env, obs, config, site, startURL, schemes, robotsData, tasks, visited,
                    siteGraph, wg, cancelled, startPc, startErr, robotsReply,
                    cur, links, enqueued, fetched, seen >>

\* lines 194-226: one iteration of the loop over the links, under the lock
WorkerProcessLink(w) ==
    /\ pc[w] = "links"
    /\ idx[w] <= Len(links[w])
    /\ LET t        == cur[w]
           link     == links[w][idx[w]]
           verdict  == Verdict(t, link)
           resolved == Resolved(t, link)
           key      == normaliseURL(resolved)
       IN  /\ IF verdict = "accept"
              THEN /\ visited' = visited \cup { key }
                   /\ siteGraph' = AddEdge(siteGraph, normaliseURL(t.u), key, 1)
                   /\ IF ShouldEnqueue(t.depth)
                      THEN /\ tasks' = Append(tasks, NewTask(resolved, t.depth + 1))
                           /\ enqueued' = enqueued (+)
                                  SetToBag({ NewTask(resolved, t.depth + 1) })
                      ELSE UNCHANGED << tasks, enqueued >>
              ELSE UNCHANGED << visited, siteGraph, tasks, enqueued >>
           /\ seen' = IF verdict # "malformed"
                      THEN seen \cup { << t.u, resolved >> } ELSE seen
    /\ idx' = [idx EXCEPT ![w] = idx[w] + 1]
    /\ UNCHANGED << env, obs, config, site, startURL, schemes, robotsData, wg, mu,
                    cancelled, startPc, startErr, robotsReply, pc, cur, links,
                    fetched >>

\* line 191: the deferred a.mu.Unlock() when the loop is over; the worker
\* goes back to the head of its loop
WorkerProcessDone(w) ==
    /\ pc[w] = "links"
    /\ idx[w] > Len(links[w])
    /\ mu' = 0
    /\ pc' = [pc EXCEPT ![w] = "select"]
    /\ UNCHANGED << env, obs, config, site, startURL, schemes, robotsData, tasks, visited,
                    siteGraph, wg, cancelled, startPc, startErr, robotsReply,
                    cur, links, idx, enqueued, fetched, seen >>

----------------------------------------------------------------------------
(* Specifications *)

Next ==
    \/ StartPreflight
    \/ StartSeed
    \/ StartReturn
    \/ Cancel
    \/ \E w \in Workers : WorkerSelect(w)
    \/ \E w \in Workers : WorkerLock(w)
    \/ \E w \in Workers : WorkerDequeue(w)
    \/ \E w \in Workers : WorkerFetch(w)
    \/ \E w \in Workers : WorkerExtract(w)
    \/ \E w \in Workers : WorkerProcessLock(w)
    \/ \E w \in Workers : WorkerProcessLink(w)
    \/ \E w \in Workers : WorkerProcessDone(w)

Spec == Init /\ [][Next]_vars

\* The scheduler runs every goroutine that can take a step, and every call
\* of the Fetcher and the Extractor returns: weak fairness of Start's steps
\* and of each worker's steps.  The caller need not cancel.
WorkerStep(w) ==
    /\ w \in Workers
    /\ \/ WorkerSelect(w)
       \/ WorkerLock(w)
       \/ WorkerDequeue(w)
       \/ WorkerFetch(w)
       \/ WorkerExtract(w)
       \/ WorkerProcessLock(w)
       \/ WorkerProcessLink(w)
       \/ WorkerProcessDone(w)

FairSpec ==
    /\ Spec
    /\ WF_vars(StartPreflight)
    /\ WF_vars(StartSeed)
    /\ WF_vars(StartReturn)
    /\ \A w \in 1..MaxWorkersBound : WF_vars(WorkerStep(w))

----------------------------------------------------------------------------
(* Vocabulary of the properties *)

Key(t) == normaliseURL(t.u)

SeedTask == NewTask(startURL, 0)

\* number of elements of a bag, counted with multiplicity, that satisfy P
CountWhere(bag, P(_)) ==
    LET S == { x \in BagToSet(bag) : P(x) }
    IN  IF S = {} THEN 0 ELSE BagCardinality([x \in S |-> bag[x]])

EnqueuedFor(k) == LET Is(t) == Key(t) = k IN CountWhere(enqueued, Is)

FetchedTask(t) == LET Is(e) == e.t = t IN CountWhere(fetched, Is)

NoFailure == \A e \in BagToSet(fetched) : e.r = "ok"

Returned == startPc = "returned"

\* Start returned nil after running the pool, and the context was not cancelled
CrawlCompleted == Returned /\ startErr = NilErr /\ ~cancelled

\* the link passes the scheme, host and robots filters as the spec states them
LinkPasses(base, link) ==
    LET parsed   == Parse(link)
        resolved == ResolveReference(base, parsed.u)
    IN  /\ parsed.err = "nil"
        /\ resolved.Scheme \in schemes
        /\ normaliseHost(resolved.Host) = normaliseHost(base.Host)
        /\ ~robotsData.set \/ TestAgent(robotsData, resolved.Path, config.Agent)

\* the URLs that accepted links lead to from page u
Successors(u) ==
    LET ls == SiteLinks(site, u)
    IN  { ResolveReference(u, Parse(ls[i]).u) :
            i \in { j \in 1..Len(ls) : LinkPasses(u, ls[j]) } }

\* the URLs within n hops of accepted links from the start URL
RECURSIVE Within(_)
Within(n) ==
    IF n = 0 THEN { startURL }
    ELSE LET near == Within(n - 1)
         IN  near \cup UNION { Successors(u) : u \in near }

----------------------------------------------------------------------------
(* C1: over one crawl, for every canonical key at most one task whose URL  *)
(* canonicalizes to it is ever enqueued, the seed task included.           *)

C1_NoKeyEnqueuedTwice ==
    \A t \in BagToSet(enqueued) : EnqueuedFor(Key(t)) <= 1

----------------------------------------------------------------------------
(* C2: no task is lost.  With MaxWorkers >= 1 and a context that is never  *)
(* cancelled, when Start returns every task that was ever enqueued has     *)
(* been dequeued by a worker: the queue is empty and each enqueued task    *)
(* was handed to the Fetcher as often as it was enqueued.                  *)

C2_NoTaskLost ==
    (CrawlCompleted /\ config.MaxWorkers >= 1) =>
        /\ tasks = << >>
        /\ \A t \in BagToSet(enqueued) : FetchedTask(t) = CopiesIn(t, enqueued)

\* two workers finished a crawl in which tasks were enqueued by processLinks
C2_Witness ==
    /\ CrawlCompleted
    /\ config.MaxWorkers = 2
    /\ BagCardinality(enqueued) >= 4
    /\ C2_NoTaskLost

----------------------------------------------------------------------------
(* C3: Start terminates.  Under the fair scheduling of FairSpec every      *)
(* worker eventually exits and Start eventually returns, also on sites     *)
(* whose pages link to each other in cycles.                               *)

C3_StartTerminates ==
    <>(Returned /\ wg = 0 /\ \A w \in Workers : pc[w] \in {"idle", "done"})

\* Start returned on the site whose seed page links to itself, after the
\* seed page was fetched a second time through that link
C3_Witness ==
    /\ Returned
    /\ site = "loop"
    /\ config.MaxWorkers >= 1
    /\ \A w \in Workers : pc[w] = "done"
    /\ \E e \in BagToSet(fetched) : Key(e.t) = Key(SeedTask) /\ e.t.depth > 0

----------------------------------------------------------------------------
(* C4: no missed pages.  With MaxWorkers >= 1, a context never cancelled   *)
(* and every fetch and extraction succeeding, every canonical key within   *)
(* fewer than MaxDepth accepted hops of the seed has been fetched when     *)
(* Start returns.                                                          *)

C4_NoMissedPages ==
    (CrawlCompleted /\ config.MaxWorkers >= 1 /\ config.MaxDepth >= 1 /\ NoFailure) =>
        \A u \in Within(config.MaxDepth - 1) :
            \E e \in BagToSet(fetched) : e.r = "ok" /\ Key(e.t) = normaliseURL(u)

----------------------------------------------------------------------------
(* C5: in every reachable state, a link that resolved to another host      *)
(* (after stripping a leading "www.") than its source page's, or to a      *)
(* scheme outside the allow-list, is not in the visited set, is not a      *)
(* graph node and is not a queued task -- except a link that resolves to   *)
(* the start URL itself or to its robots.txt URL, which Start records      *)
(* without filtering them.                                                 *)

FilteredOut(base, r) ==
    \/ normaliseHost(r.Host) # normaliseHost(base.Host)
    \/ r.Scheme \notin schemes

Recorded(r) ==
    \/ String(r) \in visited
    \/ normaliseURL(r) \in visited
    \/ normaliseURL(r) \in siteGraph.nodes
    \/ \E i \in 1..Len(tasks) : Key(tasks[i]) = normaliseURL(r)

RecordedByStart(r) ==
    \/ normaliseURL(r) = normaliseURL(startURL)
    \/ String(r) = RobotsURL

C5_NoFilteredLinkRecorded ==
    \A e \in seen :
        (FilteredOut(e[1], e[2]) /\ ~RecordedByStart(e[2])) => ~Recorded(e[2])

\* the statement without the exception
C5_Original ==
    \A e \in seen : FilteredOut(e[1], e[2]) => ~Recorded(e[2])

\* a crawl went on after a page carrying an external link and a link of a
\* disallowed scheme was processed
C5_Witness ==
    /\ \E e \in seen : e[2].Host = X
    /\ \E e \in seen : e[2].Scheme = "mailto"
    /\ Cardinality(siteGraph.nodes) >= 3
    /\ Returned

----------------------------------------------------------------------------
(* C6: when a robots policy is active and disallows the resolved path of   *)
(* a link for the configured agent, the processLinks iteration for that    *)
(* link leaves the visited set, the graph and the task queue unchanged.    *)

ProcessesLink(w) ==
    /\ pc[w] = "links"
    /\ idx[w] <= Len(links[w])
    /\ idx'[w] = idx[w] + 1

RobotsDisallows(t, link) ==
    /\ Parse(link).err = "nil"
    /\ robotsData.set
    /\ ~TestAgent(robotsData, ResolveReference(t.u, Parse(link).u).Path, config.Agent)

C6_DisallowedLinkLeavesNoTrace ==
    [][\A w \in Workers :
         (ProcessesLink(w) /\ RobotsDisallows(cur[w], links[w][idx[w]]))
            => UNCHANGED << visited, siteGraph, tasks >>]_vars

\* a worker has just processed a link that passes the scheme and host
\* filters and that the active robots policy disallows
C6_Witness ==
    \E w \in Workers :
        /\ pc[w] = "links"
        /\ idx[w] > 1
        /\ LET link == links[w][idx[w] - 1]
               r    == ResolveReference(cur[w].u, Parse(link).u)
           IN  /\ RobotsDisallows(cur[w], link)
               /\ ~FilteredOut(cur[w].u, r)
               /\ ~Recorded(r)

----------------------------------------------------------------------------
(* C7: with RespectRobots enabled, when the robots.txt fetch returns an    *)
(* error, a status other than 200 or 404, or a body that fails to parse,   *)
(* Start returns an error whose message contains "failed to respect        *)
(* robots" before any worker is launched: the seed is never enqueued and   *)
(* the queue, the visited set and the graph stay empty.                    *)

RobotsFetchFailed(reply) ==
    \/ reply.kind = "error"
    \/ reply.kind = "response" /\ reply.status \notin {200, 404}
    \/ reply.kind = "response" /\ reply.status = 200 /\ reply.body = "garbage"

NoWorkerLaunched == wg = 0 /\ \A w \in Workers : pc[w] = "idle"

C7_RobotsFailureAbortsStart ==
    (config.RespectRobots /\ RobotsFetchFailed(robotsReply)) =>
        /\ Returned
        /\ \E i \in 1..Len(startErr) : startErr[i] = "failed to respect robots: "
        /\ NoWorkerLaunched
        /\ enqueued = EmptyBag
        /\ tasks = << >>
        /\ visited = {}
        /\ siteGraph = EmptyGraph

\* Start returned after robots.txt answered 403
C7_Witness ==
    /\ config.RespectRobots
    /\ robotsReply.kind = "response" /\ robotsReply.status = 403
    /\ Returned
    /\ startErr # NilErr
    /\ config.MaxWorkers >= 1

----------------------------------------------------------------------------
(* C8: with RespectRobots enabled, a 404 for robots.txt is not an error:   *)
(* the robots policy stays nil, the robots URL string is in the visited    *)
(* set, Start seeds the queue and launches the workers, and the value it   *)
(* returns is nil.                                                         *)

RobotsNotFound == robotsReply.kind = "response" /\ robotsReply.status = 404

C8_RobotsNotFoundAllowsAll ==
    (config.RespectRobots /\ RobotsNotFound) =>
        /\ robotsData = NilRobots
        /\ RobotsURL \in visited
        /\ startPc \in {"seed", "wait", "returned"}
        /\ startPc # "seed" =>
              /\ SeedTask \in BagToSet(enqueued)
              /\ \A w \in Workers : pc[w] # "idle"
        /\ Returned => startErr = NilErr

\* Start returned nil after a 404 for robots.txt and a crawl that fetched
\* a path the robots rules would have disallowed
C8_Witness ==
    /\ config.RespectRobots
    /\ RobotsNotFound
    /\ Returned
    /\ startErr = NilErr
    /\ \E e \in BagToSet(fetched) : e.r = "ok" /\ e.t.u.Path = << "/", "f" >>

----------------------------------------------------------------------------
(* C9: per-task failures never abort the crawl.  Whenever the robots       *)
(* preflight is disabled or succeeds, the value Start returns is nil       *)
(* whatever the outcome of the page fetches; the step in which a task      *)
(* fails (fetch error, status >= 400, extraction error) leaves the         *)
(* visited set, the graph and the queue unchanged; and when the seed task  *)
(* fails, the visited set after Start returns holds the seed entry and,    *)
(* when the preflight ran, the robots.txt URL -- nothing else.             *)

PreflightSucceeded ==
    /\ robotsReply.kind = "response"
    /\ \/ robotsReply.status = 404
       \/ robotsReply.status = 200 /\ robotsReply.body = "rules"

PreflightDisabledOrSucceeded == ~config.RespectRobots \/ PreflightSucceeded

SeedFailed == [t |-> SeedTask, r |-> "failed"] \in BagToSet(fetched)

TaskFails(w) ==
    /\ pc[w] \in {"fetch", "extract"}
    /\ fetched' = fetched (+) Log(cur[w], "failed")

StartEntries ==
    { SeedVisitedKey } \cup (IF config.RespectRobots THEN { RobotsURL } ELSE {})

C9_FailuresLeaveCrawlRunning ==
    /\ [](Returned /\ PreflightDisabledOrSucceeded =>
             /\ startErr = NilErr
             /\ SeedFailed => visited = StartEntries)
    /\ [][\A w \in Workers :
            TaskFails(w) => UNCHANGED << visited, siteGraph, tasks >>]_vars

\* the statement as it stands: only the seed entry
C9_Original ==
    (Returned /\ PreflightDisabledOrSucceeded /\ SeedFailed) =>
        visited = { SeedVisitedKey }

\* Start returned nil from a crawl of two workers in which the robots
\* preflight succeeded and the seed task failed
C9_Witness ==
    /\ Returned
    /\ startErr = NilErr
    /\ PreflightDisabledOrSucceeded
    /\ config.RespectRobots
    /\ config.MaxWorkers = 2
    /\ SeedFailed
    /\ visited = StartEntries

----------------------------------------------------------------------------
(* C10: for each link that passes the filters, found on a task of depth d, *)
(* whose canonical key is not yet visited, processLinks marks the key      *)
(* visited, adds one edge of weight 1 from the source page's canonical key *)
(* to it, and enqueues a task of depth d + 1 for the resolved URL iff      *)
(* d + 1 < MaxDepth.  On the chain seed -> A -> B with MaxDepth = 2 a      *)
(* crawl without failures fetches exactly two pages and leaves a graph of  *)
(* 2 edges and a visited set of 3 entries, or 4 when the robots preflight  *)
(* ran and added the robots.txt URL.                                       *)

EdgeCount(g, from, to) == CopiesIn(<< from, to, 1 >>, g.edges)

AcceptedAsStated(w) ==
    LET t    == cur[w]
        link == links[w][idx[w]]
        r    == ResolveReference(t.u, Parse(link).u)
        src  == normaliseURL(t.u)
        key  == normaliseURL(r)
    IN  (LinkPasses(t.u, link) /\ key \notin visited) =>
            /\ visited' = visited \cup { key }
            /\ siteGraph'.nodes = siteGraph.nodes \cup { src, key }
            /\ EdgeCount(siteGraph', src, key) = EdgeCount(siteGraph, src, key) + 1
            /\ BagCardinality(siteGraph'.edges) = BagCardinality(siteGraph.edges) + 1
            /\ tasks' = IF t.depth + 1 < config.MaxDepth
                        THEN Append(tasks, [u |-> r, depth |-> t.depth + 1])
                        ELSE tasks

ChainCrawl ==
    /\ site = "chain"
    /\ config.MaxDepth = 2
    /\ config.MaxWorkers >= 1
    /\ CrawlCompleted
    /\ NoFailure

C10_AcceptedLinkEffects ==
    /\ [][\A w \in Workers : ProcessesLink(w) => AcceptedAsStated(w)]_vars
    /\ [](ChainCrawl =>
             /\ BagCardinality(fetched) = 2
             /\ BagCardinality(siteGraph.edges) = 2
             /\ Cardinality(visited) = IF config.RespectRobots THEN 4 ELSE 3)

\* the example as it stands: 3 visited entries
C10_Original ==
    ChainCrawl =>
        /\ BagCardinality(fetched) = 2
        /\ BagCardinality(siteGraph.edges) = 2
        /\ Cardinality(visited) = 3

\* the chain was crawled to the end with MaxDepth = 2 by two workers
C10_Witness ==
    /\ ChainCrawl
    /\ config.MaxWorkers = 2
    /\ BagCardinality(fetched) = 2
    /\ BagCardinality(siteGraph.edges) = 2

----------------------------------------------------------------------------
(* New and normaliseURL as functions: one call with inputs drawn from the  *)
(* sets below.                                                             *)

\* the start URL strings handed to New: empty, unparsable, without a
\* scheme, and well-formed ones
StartURLInputs ==
    { Empty,
      << "https", ":", "//", "a", " ", "b" >>,
      << "h", "/", "a" >>,
      Url("https", H, Empty),
      Url("http", W, << "/", "a" >>) }

\* the Config values handed to New
NewInputs ==
    { [StartURL |-> su, Agent |-> "agent", ValidSchemes |-> vs, LogLevel |-> ll,
       RespectRobots |-> FALSE, MaxWorkers |-> mw, MaxDepth |-> md] :
      su \in StartURLInputs,
      vs \in { Empty, << "http" >>, << "https", ",", "http" >> },
      ll \in { "info", "bogus" },
      mw \in (0 - 1)..1, md \in (0 - 1)..1 }

\* the URLs handed to normaliseURL: what url.Parse and ResolveReference
\* deliver for absolute links
URLInputs ==
    { [Scheme |-> sch, Opaque |-> Empty, Host |-> host, Path |-> path,
       RawQuery |-> q, Fragment |-> f] :
      sch \in { "https", "http" }, host \in { H, W },
      path \in { Empty, << "/" >>, << "/", "a" >>, << "/", "a", "/" >>,
                 << "/", "a", "/", "/" >>, << "/", "a", "/", "b" >>,
                 << "/", "a", "/", "b", "/" >> },
      q \in { Empty, << "q" >> }, f \in { Empty, << "s" >> } }

NilAudit == [nil |-> TRUE]

\* New, lines 78-88: the Audit it builds
NewAudit(c) ==
    [nil |-> FALSE, config |-> c, startURL |-> Parse(c.StartURL).u,
     tasks |-> << >>, visited |-> {}, siteGraph |-> EmptyGraph,
     schemes |-> NewSchemes(c)]

CallInit ==
    /\ call \in
         { [op |-> "New", done |-> FALSE, c |-> c, fetcher |-> f, extractor |-> e] :
             c \in NewInputs, f \in BOOLEAN, e \in BOOLEAN }
         \cup { [op |-> "normaliseURL", done |-> FALSE, u |-> u] : u \in URLInputs }
    /\ config = [MaxWorkers |-> 0]
    /\ site = "none"
    /\ startURL = NoURL
    /\ schemes = {}
    /\ robotsData = NilRobots
    /\ tasks = << >>
    /\ visited = {}
    /\ siteGraph = EmptyGraph
    /\ wg = 0
    /\ mu = 0
    /\ cancelled = FALSE
    /\ startPc = "none"
    /\ startErr = NilErr
    /\ robotsReply = NoReply
    /\ pc = << >>
    /\ cur = << >>
    /\ links = << >>
    /\ idx = << >>
    /\ enqueued = EmptyBag
    /\ fetched = EmptyBag
    /\ seen = {}
    /\ mainPc = NoMain
    /\ exported = << >>
    /\ response = << >>
    /\ bodies = NoBodies
    /\ late = NoLate

\* New(config, fetcher, extractor): the error, or the Audit
CallNew ==
    /\ call.op = "New" /\ ~call.done
    /\ LET err == NewErr(call.c, call.fetcher, call.extractor)
       IN  call' = [op |-> "New", done |-> TRUE, c |-> call.c,
                    fetcher |-> call.fetcher, extractor |-> call.extractor,
                    err |-> err,
                    audit |-> IF err = "nil" THEN NewAudit(call.c) ELSE NilAudit]
    /\ UNCHANGED << config, site, startURL, schemes, robotsData, tasks, visited,
                    siteGraph, wg, mu, cancelled, startPc, startErr, robotsReply,
                    pc, cur, links, idx, enqueued, fetched, seen, mainPc,
                    exported, response, bodies, late >>

\* normaliseURL(u)
CallNormaliseURL ==
    /\ call.op = "normaliseURL" /\ ~call.done
    /\ call' = [op |-> "normaliseURL", done |-> TRUE, u |-> call.u,
                key |-> normaliseURL(call.u)]
    /\ UNCHANGED << config, site, startURL, schemes, robotsData, tasks, visited,
                    siteGraph, wg, mu, cancelled, startPc, startErr, robotsReply,
                    pc, cur, links, idx, enqueued, fetched, seen, mainPc,
                    exported, response, bodies, late >>

\* url.Parse of a canonical key and normaliseURL of the result, as a later
\* processLinks does with a link written in canonical form
CallNormaliseAgain ==
    /\ call.op = "normaliseURL" /\ call.done
    /\ call' = [op |-> "normaliseAgain", done |-> TRUE, u |-> call.u,
                key |-> call.key,
                again |-> normaliseURL(Parse(call.key).u)]
    /\ UNCHANGED << config, site, startURL, schemes, robotsData, tasks, visited,
                    siteGraph, wg, mu, cancelled, startPc, startErr, robotsReply,
                    pc, cur, links, idx, enqueued, fetched, seen, mainPc,
                    exported, response, bodies, late >>

CallNext == CallNew \/ CallNormaliseURL \/ CallNormaliseAgain

CallSpec == CallInit /\ [][CallNext]_vars

----------------------------------------------------------------------------
(* C11: normaliseURL is idempotent -- the key of the URL parsed from a     *)
(* canonical key is that key again -- and two URLs that differ only by a   *)
(* trailing slash of the path, or only by query string or fragment, have   *)
(* the same canonical key.                                                 *)

\* the URLs that differ from u by a trailing slash, the query or the fragment
Variants(u) ==
    { [u EXCEPT !.Path = u.Path \o << "/" >>] }
    \cup { [u EXCEPT !.RawQuery = q, !.Fragment = f] :
             q \in { Empty, << "q" >>, << "r" >> },
             f \in { Empty, << "s" >>, << "t" >> } }

C11_CanonicalIdempotent ==
    /\ call.op = "normaliseAgain" => call.again = call.key
    /\ (call.op = "normaliseURL" /\ call.done) =>
           \A v \in Variants(call.u) : normaliseURL(v) = call.key

----------------------------------------------------------------------------
(* C12: New returns an error and no Audit exactly when the fetcher is      *)
(* absent, the extractor is absent, the start URL is empty or unparsable,  *)
(* the parsed start URL has no scheme, MaxWorkers < 0 or MaxDepth < 0, and *)
(* the error is the one of a condition that holds; in every other case,    *)
(* MaxWorkers = 0, MaxDepth = 0 and an unparsable log level included, it   *)
(* returns an Audit whose queue, visited set and graph are empty.          *)

\* the conditions under which New is to fail, each with its error
NewFailures(c, fetcher, extractor) ==
    { f \in { [err |-> "no fetcher provided", when |-> ~fetcher],
              [err |-> "no extractor provided", when |-> ~extractor],
              [err |-> "invalid start url",
               when |-> c.StartURL = Empty \/ \E i \in 1..Len(c.StartURL) : c.StartURL[i] = " "],
              [err |-> "invalid start url scheme",
               when |-> ~(Len(c.StartURL) >= 2 /\ c.StartURL[2] = ":")],
              [err |-> "invaild max workers", when |-> c.MaxWorkers < 0],
              [err |-> "invalid max depth", when |-> c.MaxDepth < 0] } : f.when }

NewReturned == call.op = "New" /\ call.done

C12_NewRejectsExactly ==
    NewReturned =>
        LET failures == NewFailures(call.c, call.fetcher, call.extractor)
        IN  /\ (call.err # "nil") <=> (failures # {})
            /\ (call.err # "nil") => \E f \in failures : f.err = call.err
            /\ (call.err # "nil") <=> (call.audit = NilAudit)
            /\ (call.err = "nil") =>
                  /\ call.audit.tasks = << >>
                  /\ call.audit.visited = {}
                  /\ call.audit.siteGraph = EmptyGraph

\* New built an Audit for zero workers, depth zero and a log level that
\* does not parse
C12_Witness ==
    /\ NewReturned
    /\ call.c.MaxWorkers = 0 /\ call.c.MaxDepth = 0 /\ call.c.LogLevel = "bogus"
    /\ call.err = "nil"
    /\ ~call.audit.nil

----------------------------------------------------------------------------
(* C13: the scheme allow-list of the Audit that New builds is {https}      *)
(* when no valid-schemes list is configured and exactly the configured     *)
(* comma-separated list when one is supplied, so that only links whose     *)
(* resolved scheme is in the configured list are followed.                 *)

ConfiguredSchemes(c) ==
    IF c.ValidSchemes = Empty THEN { "https" } ELSE SplitComma(c.ValidSchemes)

C13_AllowListAsConfigured ==
    (NewReturned /\ call.err = "nil") =>
        call.audit.schemes = ConfiguredSchemes(call.c)

----------------------------------------------------------------------------
(* main (cmd/main.go) from the creation of the auditor on: the deferred    *)
(* export, the goroutine running Start, the select on done and sig, and    *)
(* the shutdown with its timeout.  Audit.ExportGraph.                      *)

auditVars == << config, site, startURL, schemes, robotsData, tasks, visited,
                siteGraph, wg, mu, startPc, startErr, robotsReply, pc, cur,
                links, idx, enqueued, fetched, seen, call, response, bodies,
                late >>

\* the sites main is run on: a chain of pages, and pages linking in a cycle
MainSites == { "chain", "loop" }

\* main, lines 44-61: the auditor is built, the export is deferred and the
\* goroutine that runs Start is launched
MainInit ==
    /\ AuditInit
    /\ config.site \in MainSites
    /\ mainPc = [at |-> "select", via |-> "none"]
    /\ exported = << >>
    /\ bodies = NoBodies
    /\ late = NoLate

\* the workers that were launched and have not returned
RunningWorkers == { w \in Workers : pc[w] \notin { "idle", "done" } }

\* faulty variant of main's return: the timeout path leaves like os.Exit,
\* without running the deferred export
DeferredExportNotOnTimeout(via) ==
    IF via = "timeout" THEN [at |-> "exited", via |-> via]
    ELSE [at |-> "export", via |-> via]

\* lines 50-53: whichever way main returns, the deferred closure runs next
DeferredExport(via) == [at |-> "export", via |-> via]

\* lines 63-69: done delivers Start's result; main returns, and the deferred
\* cancel() runs before the deferred export
MainDone ==
    /\ mainPc.at = "select"
    /\ startPc = "returned"
    /\ mainPc' = DeferredExport("done")
    /\ cancelled' = TRUE
    /\ UNCHANGED << auditVars, exported >>

\* lines 70-73: a signal arrives; main cancels the context
MainSignal ==
    /\ mainPc.at = "select"
    /\ cancelled' = TRUE
    /\ mainPc' = [at |-> "shutdown", via |-> "none"]
    /\ UNCHANGED << auditVars, exported >>

\* lines 76-77: Start returns within the shutdown timeout
MainShutdownDone ==
    /\ mainPc.at = "shutdown"
    /\ startPc = "returned"
    /\ mainPc' = DeferredExport("graceful")
    /\ UNCHANGED << auditVars, cancelled, exported >>

\* lines 78-79: the shutdown timeout expires
MainTimeout ==
    /\ mainPc.at = "shutdown"
    /\ mainPc' = DeferredExport("timeout")
    /\ UNCHANGED << auditVars, cancelled, exported >>

\* faulty variant of ExportGraph: the export function is called twice
ExportCallTwice(log, e) == Append(Append(log, e), e)

\* ExportGraph, line 113: export(a.siteGraph)
ExportCall(log, e) == Append(log, e)

\* ExportGraph, line 113: the export function is called with the graph,
\* which ExportGraph reads without taking the lock
ExportGraphCall ==
    /\ mainPc.at = "export"
    /\ exported' = ExportCall(exported,
                       [g |-> siteGraph, err |-> "pending", via |-> mainPc.via,
                        running |-> RunningWorkers, holder |-> mu])
    /\ mainPc' = [mainPc EXCEPT !.at = "exporting"]
    /\ UNCHANGED << auditVars, cancelled >>

\* ExportGraph, lines 113-115: the export function returns; an error is
\* logged; ExportGraph returns and main ends
ExportGraphReturn ==
    /\ mainPc.at = "exporting"
    /\ \E err \in { "nil", "export error" } :
         exported' = [exported EXCEPT ![Len(exported)].err = err]
    /\ mainPc' = [mainPc EXCEPT !.at = "exited"]
    /\ UNCHANGED << auditVars, cancelled >>

\* the goroutines run until the process ends with main
MainRunning == mainPc.at # "exited"

MainNext ==
    \/ MainDone
    \/ MainSignal
    \/ MainShutdownDone
    \/ MainTimeout
    \/ ExportGraphCall
    \/ ExportGraphReturn
    \/ MainRunning /\ StartPreflight
    \/ MainRunning /\ StartSeed
    \/ MainRunning /\ StartReturn
    \/ MainRunning /\ \E w \in Workers : WorkerSelect(w)
    \/ MainRunning /\ \E w \in Workers : WorkerLock(w)
    \/ MainRunning /\ \E w \in Workers : WorkerDequeue(w)
    \/ MainRunning /\ \E w \in Workers : WorkerFetch(w)
    \/ MainRunning /\ \E w \in Workers : WorkerExtract(w)
    \/ MainRunning /\ \E w \in Workers : WorkerProcessLock(w)
    \/ MainRunning /\ \E w \in Workers : WorkerProcessLink(w)
    \/ MainRunning /\ \E w \in Workers : WorkerProcessDone(w)

MainSpec == MainInit /\ [][MainNext]_vars

----------------------------------------------------------------------------
(* C14: no two workers are inside a critical section (one dequeue, or one  *)
(* task's whole processLinks pass) at the same time, and every read or     *)
(* write of the queue, the visited set and the graph made while workers    *)
(* run happens inside such a section: a worker at a position that touches  *)
(* them holds the lock, and the graph is not read from outside a section   *)
(* while a worker runs.                                                    *)

InSection(w) == pc[w] \in { "dequeue", "links" }

MutualExclusion ==
    \A w1, w2 \in Workers : (w1 # w2) => ~(InSection(w1) /\ InSection(w2))

WorkerAccessLocked == \A w \in Workers : InSection(w) <=> mu = w

C14_AccessesInsideSections ==
    /\ MutualExclusion
    /\ WorkerAccessLocked
    /\ \A i \in 1..Len(exported) : exported[i].running = {}

----------------------------------------------------------------------------
(* C15: with RespectRobots = false, in every reachable state the visited   *)
(* set has at most as many entries as there are distinct canonical keys    *)
(* reachable from the seed within MaxDepth hops through links that pass    *)
(* the scheme, host and robots filters.                                    *)

ReachableKeys == { normaliseURL(u) : u \in Within(config.MaxDepth) }

C15_VisitedBoundedByReachable ==
    ~config.RespectRobots => Cardinality(visited) <= Cardinality(ReachableKeys)

----------------------------------------------------------------------------
(* C16: the crawl is breadth-first.  Tasks are dequeued in nondecreasing   *)
(* depth order across all workers -- no task waiting in the queue is       *)
(* shallower than a task that was already dequeued -- and the depth of     *)
(* every task is the minimum number of accepted link hops from the seed    *)
(* to its page.                                                            *)

\* the tasks that some worker has dequeued
DequeuedTasks ==
    { e.t : e \in BagToSet(fetched) }
    \cup { cur[w] : w \in { v \in Workers : pc[v] \in { "fetch", "extract", "plock", "links" } } }

DequeuedInDepthOrder ==
    \A i \in 1..Len(tasks) : \A t \in DequeuedTasks : t.depth <= tasks[i].depth

\* the least number of accepted hops from the seed to the page of key k
MinHops(k) ==
    CHOOSE n \in 0..(MaxDepthBound + 1) :
        /\ k \in { normaliseURL(u) : u \in Within(n) }
        /\ \A m \in 0..(n - 1) : k \notin { normaliseURL(u) : u \in Within(m) }

DepthIsMinHops == \A t \in BagToSet(enqueued) : t.depth = MinHops(Key(t))

C16_BreadthFirst == DequeuedInDepthOrder /\ DepthIsMinHops

----------------------------------------------------------------------------
(* C17: for every configuration accepted by New, when Start has returned   *)
(* nil and the context was never cancelled, exactly MaxWorkers workers     *)
(* were launched and all of them have exited; the task queue is empty if   *)
(* MaxWorkers >= 1, and still holds the seed task if MaxWorkers = 0.       *)

LaunchedWorkers == { w \in DOMAIN pc : pc[w] # "idle" }

AllLaunchedAndExited ==
    /\ Cardinality(LaunchedWorkers) = config.MaxWorkers
    /\ \A w \in LaunchedWorkers : pc[w] = "done"
    /\ wg = 0

C17_PoolRunsToCompletion ==
    CrawlCompleted =>
        /\ AllLaunchedAndExited
        /\ config.MaxWorkers >= 1 => tasks = << >>
        /\ config.MaxWorkers = 0 => tasks = << SeedTask >>

\* the statement as it stands: the queue is empty for every configuration
C17_Original ==
    CrawlCompleted => (AllLaunchedAndExited /\ tasks = << >>)

\* two workers were launched, crawled several pages and exited
C17_Witness ==
    /\ CrawlCompleted
    /\ config.MaxWorkers = 2
    /\ AllLaunchedAndExited
    /\ BagCardinality(fetched) >= 3
    /\ tasks = << >>

----------------------------------------------------------------------------
(* C18: cancellation stops the crawl.  Once the context is cancelled, with *)
(* every Fetch and Extract returning, all workers exit and Start returns,  *)
(* also with tasks left in the queue; a worker that finds the context      *)
(* cancelled at the head of its loop exits there without dequeuing; and    *)
(* the value Start returns is nil unless the cancellation came before a    *)
(* robots preflight that failed.                                           *)

AllWorkersExited == \A w \in Workers : pc[w] \in { "idle", "done" }

ObservesCancellation(w) == pc[w] = "select" /\ cancelled /\ pc'[w] # pc[w]

C18_CancellationStopsCrawl ==
    /\ [](cancelled => <>(Returned /\ AllWorkersExited))
    /\ [][\A w \in Workers :
            ObservesCancellation(w) =>
                (pc'[w] = "done" /\ UNCHANGED << tasks, cur >>)]_vars
    /\ []((Returned /\ cancelled /\ PreflightDisabledOrSucceeded) =>
              startErr = NilErr)

\* the statement as it stands: after a cancellation Start returns nil
C18_Original ==
    (Returned /\ cancelled) => startErr = NilErr

\* Start returned nil after a cancellation, all workers gone, tasks left
C18_Witness ==
    /\ Returned
    /\ cancelled
    /\ startErr = NilErr
    /\ config.MaxWorkers = 2
    /\ \A w \in Workers : pc[w] = "done"
    /\ Len(tasks) >= 2

----------------------------------------------------------------------------
(* C19: ExportGraph calls the supplied export function exactly once, with  *)
(* the orchestrator's current graph; whether that function returns nil or  *)
(* an error, ExportGraph returns normally, and it leaves the graph, the    *)
(* visited set and the queue unchanged.                                    *)

ExportGraphCalls == mainPc.at = "export" /\ mainPc'.at # "export"

ExportGraphReturns == mainPc.at = "exporting" /\ mainPc'.at # "exporting"

C19_ExportGraphCallsOnce ==
    /\ [][ExportGraphCalls =>
            /\ mainPc'.at = "exporting"
            /\ Len(exported') = Len(exported) + 1
            /\ exported'[Len(exported')].g = siteGraph
            /\ UNCHANGED << siteGraph, visited, tasks >>]_vars
    /\ [][ExportGraphReturns =>
            /\ mainPc'.at = "exited"
            /\ Len(exported') = Len(exported)
            /\ exported'[Len(exported')].err \in { "nil", "export error" }
            /\ UNCHANGED << siteGraph, visited, tasks >>]_vars

\* ExportGraph returned after the export function failed on a graph with
\* edges
C19_Witness ==
    /\ mainPc.at = "exited"
    /\ Len(exported) = 1
    /\ exported[1].err = "export error"
    /\ exported[1].g = siteGraph
    /\ BagCardinality(siteGraph.edges) >= 2

----------------------------------------------------------------------------
(* C20: once the auditor has been created, the graph export runs exactly   *)
(* once on every way main can finish: Start returning nil, Start returning *)
(* an error, a signal followed by the completion of Start, and a signal    *)
(* followed by the shutdown timeout.  It does not run before main returns. *)

C20_ExportRunsOncePerExit ==
    /\ Len(exported) <= 1
    /\ mainPc.at \in { "select", "shutdown", "export" } => exported = << >>
    /\ mainPc.at = "exited" =>
          /\ Len(exported) = 1
          /\ exported[1].err # "pending"
          /\ exported[1].via = mainPc.via
          /\ mainPc.via \in { "done", "graceful", "timeout" }

\* main ended through the shutdown timeout while Start had not returned,
\* and the export ran
C20_Witness ==
    /\ mainPc = [at |-> "exited", via |-> "timeout"]
    /\ startPc # "returned"
    /\ Len(exported) = 1

----------------------------------------------------------------------------
(* C21: a worker never holds the lock while it is inside a Fetch or an     *)
(* Extract call.  It releases the lock in the step that dequeues, before   *)
(* fetching, and takes it again only on entering processLinks, so a worker *)
(* that is fetching or extracting never keeps another worker from          *)
(* dequeuing or from processing links.                                     *)

OutsideLock(w) == pc[w] \in { "fetch", "extract" }

\* the steps of w that take the lock
TakesLock(w) == mu # w /\ mu' = w

C21_NoLockDuringFetch ==
    /\ [](\A w \in Workers : OutsideLock(w) \/ pc[w] = "plock" => mu # w)
    /\ [][\A w \in Workers :
            /\ (pc[w] = "dequeue" /\ pc'[w] = "fetch") => (mu = w /\ mu' = 0)
            /\ TakesLock(w) => (pc[w] \in { "lock", "plock" } /\ mu = 0)]_vars
    /\ [](\A w, v \in Workers :
            (OutsideLock(w) /\ pc[v] \in { "lock", "plock" }
               /\ \A x \in Workers \ { w } : mu # x)
            => (ENABLED WorkerLock(v) \/ ENABLED WorkerProcessLock(v)))

\* one worker is inside Fetch while the other holds the lock in processLinks
C21_Witness ==
    /\ config.MaxWorkers = 2
    /\ pc[1] = "fetch"
    /\ pc[2] = "links"
    /\ mu = 2
    /\ idx[2] >= 2

----------------------------------------------------------------------------
(* The crawl with the responses and their bodies observed: the same Start  *)
(* and workers, on the sites below, with every response a Fetch returns    *)
(* recorded for the worker and every body counted from the moment it is    *)
(* obtained until it is closed.                                            *)

\* the sites the bodies are observed on
BodySites == { "chain", "loop" }

BodyInit ==
    /\ AuditInit
    /\ config.site \in BodySites
    /\ mainPc = NoMain
    /\ exported = << >>
    /\ bodies = [NoBodies EXCEPT !.on = TRUE]
    /\ late = NoLate

BodySpec == BodyInit /\ [][Next]_vars

----------------------------------------------------------------------------
(* C22: when the Fetch of a page returns a response with status >= 400,    *)
(* the worker calls neither Extract nor processLinks for that task: the    *)
(* step leaves the visited set, the graph and the queue as they are and    *)
(* takes the worker to the head of its loop, and no worker is ever in      *)
(* Extract or processLinks with such a response.                           *)

\* the Fetch of worker w returns in this step
FetchReturns(w) == pc[w] = "fetch" /\ pc'[w] # "fetch"

C22_RejectedStatusSkipsTask ==
    /\ [][\A w \in Workers :
            (FetchReturns(w) /\ response'[w].kind = "response"
               /\ response'[w].status >= 400)
            => (pc'[w] = "select" /\ UNCHANGED << visited, siteGraph, tasks, links >>)]_vars
    /\ [](\A w \in Workers :
            pc[w] \in { "extract", "plock", "links" }
            => (response[w].kind = "response" /\ response[w].status < 400))

\* a worker got a 403 for one task and has gone on to dequeue the next one
C22_Witness ==
    /\ \E w \in Workers :
         /\ pc[w] = "fetch"
         /\ response[w] = [kind |-> "response", status |-> 403]
         /\ cur[w].depth >= 1
    /\ Cardinality(visited) >= 3

----------------------------------------------------------------------------
(* C23: a page response whose status is not 2xx (outside 200..299, such as *)
(* a 1xx or a 3xx) makes the worker drop the task: no worker goes on to    *)
(* Extract or to processLinks with such a response, so the task yields no  *)
(* links, no visited entry, no edge and no task.                           *)

SuccessStatus == 200..299

C23_NonSuccessStatusDropsTask ==
    \A w \in Workers :
        (response[w].kind = "response" /\ response[w].status \notin SuccessStatus)
        => pc[w] \notin { "extract", "plock", "links" }

----------------------------------------------------------------------------
(* C24: every response body obtained from a successful Fetch has been      *)
(* closed by the time Start returns: the bodies of the page responses,     *)
(* whether the status was >= 400, the extraction failed or the page was    *)
(* processed, and the body of the robots.txt response on every path.       *)

OpenBodies(w) == bodies.open[w]

C24_BodiesClosedAtReturn ==
    Returned =>
        /\ \A w \in Workers : OpenBodies(w) = 0
        /\ bodies.closed = bodies.obtained
        /\ robotsReply.kind = "response" => bodies.robots = "closed"
        /\ bodies.robots # "open"

\* Start has returned after a preflight that got a response and a crawl in
\* which two workers obtained page responses
C24_Witness ==
    /\ Returned
    /\ startErr = NilErr
    /\ config.MaxWorkers = 2
    /\ bodies.robots = "closed"
    /\ bodies.obtained >= 3
    /\ bodies.closed = bodies.obtained
    /\ SeedTask \in { e.t : e \in BagToSet(fetched) }

----------------------------------------------------------------------------
(* C25: a worker closes the response body of a task before it fetches its  *)
(* next task, so that at any moment each worker holds at most one unclosed *)
(* response body and the number of open bodies never exceeds MaxWorkers.   *)

AllOpenBodies == bodies.obtained - bodies.closed

C25_OneOpenBodyPerWorker ==
    /\ \A w \in Workers : OpenBodies(w) <= 1
    /\ \A w \in Workers : pc[w] = "fetch" => OpenBodies(w) = 0
    /\ AllOpenBodies <= config.MaxWorkers

----------------------------------------------------------------------------
(* C26: only first-discovery edges are recorded: in every reachable state  *)
(* each canonical key is the target of at most one graph edge, and the     *)
(* number of edges equals the number of canonical keys that processLinks   *)
(* has marked visited (the visited entries that Start did not add).        *)

\* the number of edges that end in key k, parallel edges counted
EdgesTo(k) ==
    LET into == { e \in BagToSet(siteGraph.edges) : e[2] = k }
        RECURSIVE Sum(_)
        Sum(S) == IF S = {} THEN 0
                  ELSE LET e == CHOOSE x \in S : TRUE
                       IN  CopiesIn(e, siteGraph.edges) + Sum(S \ { e })
    IN  Sum(into)

MarkedByProcessLinks == visited \ StartEntries

C26_FirstDiscoveryEdgesOnly ==
    /\ \A k \in visited \cup siteGraph.nodes : EdgesTo(k) <= 1
    /\ \A k \in MarkedByProcessLinks : EdgesTo(k) = 1
    /\ BagCardinality(siteGraph.edges) = Cardinality(MarkedByProcessLinks)

\* the page /x is linked from /a and from /y, both were fetched and their
\* links processed, and /x has one incoming edge
C26_Witness ==
    /\ site = "race"
    /\ Returned
    /\ \E e1, e2 \in BagToSet(fetched) :
         /\ e1.r = "ok" /\ Key(e1.t) = Url("https", H, << "/", "a" >>)
         /\ e2.r = "ok" /\ Key(e2.t) = Url("https", H, << "/", "y" >>)
    /\ EdgesTo(Url("https", H, << "/", "x" >>)) = 1
    /\ BagCardinality(siteGraph.edges) = 4

----------------------------------------------------------------------------
(* C27: no cross-host drift: every task that is ever enqueued or fetched   *)
(* has a host equal to the host of the start URL once a leading "www." is  *)
(* stripped from both, although processLinks compares each link only with  *)
(* the host of the page it was found on.                                   *)

OnStartHost(t) == TrimPrefix(t.u.Host, << "www." >>) = TrimPrefix(startURL.Host, << "www." >>)

C27_NoCrossHostDrift ==
    /\ \A t \in BagToSet(enqueued) : OnStartHost(t)
    /\ \A i \in 1..Len(tasks) : OnStartHost(tasks[i])
    /\ \A w \in Workers : pc[w] \in { "fetch", "extract", "plock", "links" } => OnStartHost(cur[w])
    /\ \A e \in BagToSet(fetched) : OnStartHost(e.t)

\* started on h, the crawl fetched a page of www.h and enqueued a link found
\* on it, two hops from the start; the link to the host x found on the start
\* page was not enqueued
C27_Witness ==
    /\ startURL.Host = H
    /\ \E e \in BagToSet(fetched) : e.r = "ok" /\ e.t.u.Host = W
    /\ \E t \in BagToSet(enqueued) : t.depth = 2 /\ t.u.Host = W
    /\ \E p \in seen : p[1].Host = H /\ p[2].Host = X
    /\ \A t \in BagToSet(enqueued) : t.u.Host # X

----------------------------------------------------------------------------
(* C28: MaxDepth bounds the hops followed.  The seed task, of depth 0, is  *)
(* enqueued and fetched whatever MaxDepth is; every other task that is     *)
(* ever enqueued or fetched has a depth from 1 to MaxDepth - 1.  A link    *)
(* accepted on a page of depth MaxDepth - 1 or more becomes a visited      *)
(* entry and the target of an edge, and no task.                           *)

\* every task that was enqueued, is queued, is held by a worker or was fetched
TasksEver ==
    BagToSet(enqueued) \cup { tasks[i] : i \in 1..Len(tasks) }
      \cup { cur[w] : w \in { v \in Workers : pc[v] \in { "fetch", "extract", "plock", "links" } } }
      \cup { e.t : e \in BagToSet(fetched) }

\* worker w accepts a link in this step
AcceptsLink(w) == pc[w] = "links" /\ visited' # visited

C28_DepthBoundsHops ==
    /\ [](\A t \in TasksEver :
            t = SeedTask \/ (1 <= t.depth /\ t.depth < config.MaxDepth))
    /\ [][\A w \in Workers :
            (AcceptsLink(w) /\ cur[w].depth + 1 >= config.MaxDepth)
            => /\ UNCHANGED << tasks, enqueued >>
               /\ \E k \in visited' \ visited :
                    /\ visited' = visited \cup { k }
                    /\ EdgeCount(siteGraph', Key(cur[w]), k)
                         = EdgeCount(siteGraph, Key(cur[w]), k) + 1]_vars

\* the claim as stated: no task of depth MaxDepth or more, whatever MaxDepth
C28_Original == \A t \in TasksEver : t.depth < config.MaxDepth

\* with MaxDepth = 2 the chain seed -> /a -> /b was crawled: /b is visited and
\* the target of an edge, and was never enqueued
C28_Witness ==
    /\ site = "chain"
    /\ config.MaxDepth = 2
    /\ Returned
    /\ Url("https", H, << "/", "b" >>) \in visited
    /\ EdgeCount(siteGraph, Url("https", H, << "/", "a" >>), Url("https", H, << "/", "b" >>)) = 1
    /\ EnqueuedFor(Url("https", H, << "/", "b" >>)) = 0
    /\ EnqueuedFor(Url("https", H, << "/", "a" >>)) = 1

----------------------------------------------------------------------------
(* C29: host equivalence governs only the filter, not identity.  A link    *)
(* whose host differs from the host of its page only by a leading "www."   *)
(* passes the external-link filter, and when it is accepted the key that   *)
(* is marked visited and becomes a graph node carries the literal host of  *)
(* the link.  The keys of www.h/p and h/p are therefore distinct visited   *)
(* entries and graph nodes, and each is enqueued at most once.             *)

\* scheme://host of u with the host as written
LiteralOrigin(u) == << u.Scheme, ":", "//" >> \o u.Host

\* the link worker w is about to process differs from its page by "www." only
WwwVariantLink(w) ==
    /\ pc[w] = "links"
    /\ idx[w] <= Len(links[w])
    /\ ParsedLinks[links[w][idx[w]]].err = "nil"
    /\ LET r == Resolved(cur[w], links[w][idx[w]])
       IN  /\ r.Host # cur[w].u.Host
           /\ TrimPrefix(r.Host, << "www." >>) = TrimPrefix(cur[w].u.Host, << "www." >>)

C29_HostEquivalenceOnlyFilters ==
    /\ [][\A w \in Workers :
            (WwwVariantLink(w) /\ idx'[w] # idx[w])
            => LET r == Resolved(cur[w], links[w][idx[w]])
               IN  /\ (r.Scheme \in schemes /\ RobotsAllowed(r)
                         /\ ~ \E k \in visited : HasPrefix(k, LiteralOrigin(r) \o << "/" >>))
                      => visited' # visited
                   /\ \A k \in visited' \ visited :
                        /\ HasPrefix(k, LiteralOrigin(r) \o << "/" >>)
                        /\ k \in siteGraph'.nodes]_vars
    /\ [](\A t \in BagToSet(enqueued) :
            t.u.Host = W =>
              /\ HasPrefix(Key(t), LiteralOrigin(t.u) \o << "/" >>)
              /\ Key(t) \in visited
              /\ Key(t) \in siteGraph.nodes
              /\ EnqueuedFor(Key(t)) = 1)

\* started on h: the pages www.h/a and h/a are both visited, both graph
\* nodes, and each was enqueued once
C29_Witness ==
    /\ startURL.Host = H
    /\ { Url("https", W, << "/", "a" >>), Url("https", H, << "/", "a" >>) } \subseteq visited
    /\ { Url("https", W, << "/", "a" >>), Url("https", H, << "/", "a" >>) } \subseteq siteGraph.nodes
    /\ EnqueuedFor(Url("https", W, << "/", "a" >>)) = 1
    /\ EnqueuedFor(Url("https", H, << "/", "a" >>)) = 1

----------------------------------------------------------------------------
(* C30: the graph export never runs while a worker is still running: on    *)
(* every path of main the export function is called, and reads the graph,  *)
(* only after all workers have exited, so that the read cannot overlap a   *)
(* write of processLinks -- also after a signal followed by the shutdown   *)
(* timeout.                                                                *)

\* the export function has been called and has not returned
Exporting == mainPc.at = "exporting"

\* worker w is inside processLinks, where the graph is written
WritesGraph(w) == pc[w] = "links"

C30_ExportAfterWorkersExit ==
    Exporting =>
        /\ RunningWorkers = {}
        /\ \A w \in Workers : ~WritesGraph(w)
        /\ exported[Len(exported)].g = siteGraph

----------------------------------------------------------------------------
(* The crawl with the dequeues that follow a cancellation counted: the     *)
(* same Start, workers and caller, on the sites below.                     *)

\* the sites on which two tasks are queued at once
LateSites == { "race", "loop" }

LateInit ==
    /\ AuditInit
    /\ config.site \in LateSites
    /\ mainPc = NoMain
    /\ exported = << >>
    /\ bodies = NoBodies
    /\ late = [NoLate EXCEPT !.on = TRUE]

LateSpec == LateInit /\ [][Next]_vars

----------------------------------------------------------------------------
(* C31: after the context is cancelled each worker dequeues at most one    *)
(* further task (the check of the cancellation and the dequeue are not     *)
(* atomic), so that at most MaxWorkers tasks are dequeued after the        *)
(* cancellation and every other queued task stays in the queue.            *)

RECURSIVE SumLate(_)
SumLate(n) == IF n = 0 THEN 0 ELSE late.n[n] + SumLate(n - 1)

\* the tasks dequeued since the cancellation, over all workers
LateDequeues == SumLate(config.MaxWorkers)

\* the queue loses a task in this step
QueueShrinks == Len(tasks') < Len(tasks)

C31_OneLateDequeuePerWorker ==
    /\ [](\A w \in Workers : late.n[w] <= 1)
    /\ [](LateDequeues <= config.MaxWorkers)
    /\ [][(cancelled /\ QueueShrinks) =>
            /\ tasks' = Tail(tasks)
            /\ \E w \in Workers :
                 /\ late.n[w] = 0
                 /\ late' = [late EXCEPT !.n[w] = 1]
                 /\ cur'[w] = Head(tasks)]_vars

\* two workers each dequeued one task after the cancellation, and Start
\* returned with tasks left in the queue
C31_Witness ==
    /\ Returned
    /\ cancelled
    /\ config.MaxWorkers = 2
    /\ late.n[1] = 1
    /\ late.n[2] = 1
    /\ Len(tasks) >= 1

----------------------------------------------------------------------------
(* C32: the visited set and the edges of the graph only grow -- no entry   *)
(* and no edge is ever removed -- and in every reachable state every task  *)
(* that is in the queue or held by a worker, other than the seed task, has *)
(* its canonical key in the visited set and is the target of exactly one   *)
(* graph edge.                                                             *)

\* the tasks in the queue and the tasks workers hold
PendingTasks ==
    { tasks[i] : i \in 1..Len(tasks) }
      \cup { cur[w] : w \in { v \in Workers : pc[v] \in { "fetch", "extract", "plock", "links" } } }

OnlyGrows ==
    /\ visited \subseteq visited'
    /\ siteGraph.nodes \subseteq siteGraph'.nodes
    /\ siteGraph.edges \sqsubseteq siteGraph'.edges

C32_GrowOnlyAndTasksRecorded ==
    /\ [][OnlyGrows]_vars
    /\ [](\A t \in PendingTasks :
            t # SeedTask => (Key(t) \in visited /\ EdgesTo(Key(t)) = 1))

\* two discovered tasks are pending, one queued and one being fetched, on a
\* graph of three edges or more
C32_Witness ==
    /\ \E w \in Workers : pc[w] = "fetch" /\ cur[w].depth >= 1
    /\ \E i \in 1..Len(tasks) : tasks[i].depth >= 1
    /\ Cardinality(PendingTasks \ { SeedTask }) >= 2
    /\ BagCardinality(siteGraph.edges) >= 3

====
